---- MODULE Spec2Model ----
(***************************************************************************)
(* A model of invoice_parser.py: the regular-expression extractors of      *)
(* extract_invoice_data, extract_items_section, the summary clean-up and   *)
(* base-URL rule of get_invoice_summary, and the batch loop of main.       *)
(*                                                                         *)
(* A text is a sequence of characters; a character is a short string.      *)
(* The module is ASCII, so each Chinese character is written by a name:    *)
(*   kai piao ri qi   = the date label       nian yue ri = year month day  *)
(*   jia shui he ji   = "total price+tax"    xiao xie    = "lowercase"     *)
(*   ming cheng       = "name"               xiao1 shou fang = "seller"    *)
(*   gou mai fang     = "buyer"              he ji       = "total"         *)
(*   gui ge, xing hao, xiang mu, huo wu, lao wu4, fu wu4, dan wei,         *)
(*   shu liang, dan jia, jin e2, shui lv, shui e2 = the table-header words *)
(*   gong si, dian, hang, chang, ju, bu        = the company suffixes      *)
(*   zhang san, bi = ordinary ideographs                                   *)
(*   "yen" = U+00A5, "YEN" = U+FFE5, "fwcolon" = U+FF1A,                   *)
(*   "fwlp"/"fwrp" = the full-width parentheses                            *)
(***************************************************************************)
EXTENDS Integers, Sequences, FiniteSets, TLC

VARIABLES
  mode,        \* which machine runs: "main" or the name of a function under check
  inp, out,    \* the argument and the result of the function under check
  pc,          \* main's position, or "ready"/"applied" for a function under check
  dirs,        \* the file system: directory -> (file name -> bytes), existing directories only
  output_dir,  \* args.output
  api_key,     \* args.api_key
  todo,        \* the files input_dir.glob('*.pdf') has still to yield
  count,       \* main's count
  events,      \* per handled file, in order: the file, its outcome and its destination
  stdout,      \* the diagnostics printed (the --verbose lines left out)
  consulted,   \* the files get_invoice_summary was called for
  current,     \* the loop's pdf_file and what extract_invoice_data returned for it
  originals    \* the file system as it was when the run started

vars == <<mode, inp, out, pc, dirs, output_dir, api_key, todo, count, events, stdout,
          consulted, current, originals>>

\* Python's None: a value no text is equal to.
None == <<"<None>">>

\* Python truthiness of an optional string: neither None nor "".
Truthy(x) == x # None /\ x # <<>>

-----------------------------------------------------------------------------
\* Character classes of the regular expressions.

\* \s
WS == {" ", "\n", "\r"}

\* \d
Digits == {"0", "1", "2", "3", "4", "5", "6", "7", "8", "9"}

\* [一-龥]
CJK == {"kai", "piao", "ri", "qi", "nian", "yue", "jia", "shui", "he", "ji",
        "xiao", "xie", "ming", "cheng", "xiao1", "shou", "fang", "gou", "mai",
        "gui", "ge", "xing", "hao", "xiang", "mu", "huo", "wu", "lao", "wu4",
        "fu", "dan", "wei", "shu", "liang", "jin", "e2", "lv",
        "gong", "si", "dian", "hang", "chang", "ju", "bu",
        "zhang", "san", "bi"}

\* A-Za-z
Letters == {"A", "B", "C", "O", "S", "U", "a", "b", "c", "d", "e", "f", "h", "k", "m", "n",
            "o", "p", "r", "s", "t", "u", "v", "w", "x", "y"}

\* the characters re.sub removes from a summary (line 66)
SummaryForbidden == {"<", ">", ":", "\"", "/", "\\", "|", "?", "*", "\n", "\r"}

\* the characters re.sub removes from a filename (line 281)
FilenameForbidden == {"<", ">", ":", "\"", "/", "\\", "|", "?", "*"}

Alphabet == WS \cup Digits \cup CJK \cup Letters \cup SummaryForbidden
            \cup {".", "-", "'", "(", ")", "fwlp", "fwrp", "fwcolon", "yen", "YEN"}

\* . with re.DOTALL, and . without it
DotAll == Alphabet
Dot == Alphabet \ {"\n"}

-----------------------------------------------------------------------------
\* A regular expression is a sequence of items, each a character class with a
\* repetition; a match is the sequence of the items' start positions followed
\* by the end position; <<>> is no match.

Item(c, lo, hi, unb, lz) == [cls |-> c, min |-> lo, max |-> hi, unbounded |-> unb, lazy |-> lz]
One(c) == Item(c, 1, 1, FALSE, FALSE)
Rep(c, n) == Item(c, n, n, FALSE, FALSE)
Opt(c) == Item(c, 0, 1, FALSE, FALSE)
Plus(c) == Item(c, 1, 1, TRUE, FALSE)
Star(c) == Item(c, 0, 0, TRUE, FALSE)
LazyStar(c) == Item(c, 0, 0, TRUE, TRUE)

RECURSIVE Run(_, _, _, _)
Run(cls, s, i, cap) ==
  IF cap = 0 \/ i > Len(s) THEN 0
  ELSE IF s[i] \notin cls THEN 0
  ELSE 1 + Run(cls, s, i + 1, cap - 1)

RECURSIVE MatchFrom(_, _, _, _), TryCount(_, _, _, _, _, _)
MatchFrom(re, j, s, i) ==
  IF j > Len(re) THEN <<i>>
  ELSE LET it == re[j]
           hi == Run(it.cls, s, i, IF it.unbounded THEN Len(s) ELSE it.max)
       IN IF hi < it.min THEN <<>>
          ELSE TryCount(re, j, s, i, IF it.lazy THEN it.min ELSE hi, hi)

TryCount(re, j, s, i, n, hi) ==
  LET r == MatchFrom(re, j + 1, s, i + n)
  IN IF r # <<>> THEN <<i>> \o r
     ELSE IF re[j].lazy
          THEN IF n >= hi THEN <<>> ELSE TryCount(re, j, s, i, n + 1, hi)
          ELSE IF n <= re[j].min THEN <<>> ELSE TryCount(re, j, s, i, n - 1, hi)

\* re.search from position i: the leftmost match
RECURSIVE SearchFrom(_, _, _)
SearchFrom(re, s, i) ==
  IF i > Len(s) + 1 THEN <<>>
  ELSE LET m == MatchFrom(re, 1, s, i)
       IN IF m # <<>> THEN m ELSE SearchFrom(re, s, i + 1)

\* the text items a..b of a match took
Group(s, m, a, b) == SubSeq(s, m[a], m[b + 1] - 1)

\* re.search(...).group: the capture of items a..b, or None
SearchGroup(re, s, a, b) ==
  LET m == SearchFrom(re, s, 1) IN IF m = <<>> THEN None ELSE Group(s, m, a, b)

\* re.findall with one group: the captures of the successive matches
RECURSIVE FindAllFrom(_, _, _, _, _)
FindAllFrom(re, s, i, a, b) ==
  LET m == SearchFrom(re, s, i)
  IN IF m = <<>> THEN <<>>
     ELSE LET e == m[Len(m)]
          IN <<Group(s, m, a, b)>> \o FindAllFrom(re, s, IF e = m[1] THEN e + 1 ELSE e, a, b)

\* re.sub(r'[...]', '', s) for one character class
RemoveChars(cls, s) == SelectSeq(s, LAMBDA c : c \notin cls)

\* sub in s, at position i / anywhere
OccursAt(sub, s, i) == i + Len(sub) - 1 <= Len(s) /\ SubSeq(s, i, i + Len(sub) - 1) = sub
Contains(s, sub) == \E i \in 1..(Len(s) + 1) : OccursAt(sub, s, i)

-----------------------------------------------------------------------------
\* extract_invoice_data: the date (line 97)

date_re ==
  << Plus({"kai"} \cup WS), Plus({"piao"} \cup WS), Plus({"ri"} \cup WS), Plus({"qi"} \cup WS),
     Star({":", "fwcolon"}), Star(WS),
     Rep(Digits, 4), One({"nian"}), Rep(Digits, 2), One({"yue"}), Rep(Digits, 2), One({"ri"}) >>

ExtractDate(first_page_text) == SearchGroup(date_re, first_page_text, 7, 12)

\* extract_invoice_data: the amount (lines 105-122)

NumberChars == Digits \cup {"."}
Yen == {"yen", "YEN"}

tier1_re ==
  << Plus({"jia"} \cup WS), Plus({"shui"} \cup WS), Plus({"he"} \cup WS), Plus({"ji"} \cup WS),
     LazyStar(DotAll), Plus({"xiao"} \cup WS), Plus({"xie"} \cup WS), LazyStar(DotAll),
     Opt(Yen), Star(WS), Plus(NumberChars) >>

tier2_re ==
  << Plus({"xiao"} \cup WS), Plus({"xie"} \cup WS), LazyStar(Dot), One(Yen), Star(WS),
     Plus(NumberChars) >>

tier3_re ==
  << Plus({"xiao"} \cup WS), Plus({"xie"} \cup WS), LazyStar(Dot), Star(WS), Plus(NumberChars) >>

Tier1(full_text) == SearchGroup(tier1_re, full_text, 11, 11)
Tier2(first_page_text) == SearchGroup(tier2_re, first_page_text, 6, 6)
Tier3(first_page_text) == SearchGroup(tier3_re, first_page_text, 5, 5)

ExtractAmount_LastTierWins(full_text, first_page_text) ==
  LET a3 == Tier3(first_page_text)
      a2 == IF ~Truthy(a3) THEN Tier2(first_page_text) ELSE a3
      a1 == IF ~Truthy(a2) THEN Tier1(full_text) ELSE a2
  IN a1

ExtractAmount(full_text, first_page_text) ==
  LET a1 == Tier1(full_text)
      a2 == IF ~Truthy(a1) THEN Tier2(first_page_text) ELSE a1
      a3 == IF ~Truthy(a2) THEN Tier3(first_page_text) ELSE a2
  IN a3

\* extract_invoice_data: the seller (lines 128-169)

NameChars == CJK \cup Letters \cup Digits \cup {"(", ")", "fwlp", "fwrp"}

name_re ==
  << Plus({"ming"} \cup WS), Plus({"cheng"} \cup WS), Star({":", "fwcolon"}), Star(WS),
     Plus(NameChars) >>

NameMatches(first_page_text) == FindAllFrom(name_re, first_page_text, 1, 5, 5)

ignored_keywords ==
  { <<"gui", "ge">>, <<"xing", "hao">>, <<"xiang", "mu">>, <<"huo", "wu">>,
    <<"lao", "wu4">>, <<"fu", "wu4">>, <<"dan", "wei">>, <<"shu", "liang">>,
    <<"dan", "jia">>, <<"jin", "e2">>, <<"shui", "lv">>, <<"shui", "e2">> }

company_suffixes ==
  { <<"gong", "si">>, <<"dian">>, <<"hang">>, <<"chang">>, <<"ju">>, <<"bu">> }

IsIgnored(m) == \E k \in ignored_keywords : Contains(m, k)
IsCompany(c) == \E k \in company_suffixes : Contains(c, k)

Candidates(matches) == SelectSeq(matches, LAMBDA m : ~IsIgnored(m))
CompanyCandidates(candidates) == SelectSeq(candidates, IsCompany)

Last(q) == q[Len(q)]

PickSeller_First(matches) ==
  LET candidates == Candidates(matches)
      company_candidates == CompanyCandidates(candidates)
  IN IF matches = <<>> THEN None
     ELSE IF company_candidates # <<>> THEN Head(company_candidates)
     ELSE IF candidates # <<>> THEN Head(candidates)
     ELSE None

PickSeller(matches) ==
  LET candidates == Candidates(matches)
      company_candidates == CompanyCandidates(candidates)
  IN IF matches = <<>> THEN None
     ELSE IF company_candidates # <<>> THEN Last(company_candidates)
     ELSE IF candidates # <<>> THEN Last(candidates)
     ELSE None

seller_marker == <<"xiao1", "shou", "fang">>

fallback_re == << One({"ming"}), One({"cheng"}), Opt({":", "fwcolon"}), Plus(CJK) >>

\* clean_text.split(marker)[-1]: what follows the last occurrence of the marker
RECURSIVE LastPart(_, _, _)
LastPart(s, marker, i) ==
  IF i < 1 THEN s
  ELSE IF OccursAt(marker, s, i) THEN SubSeq(s, i + Len(marker), Len(s))
  ELSE LastPart(s, marker, i - 1)

SellerFallback(first_page_text) ==
  LET clean_text == RemoveChars(WS, first_page_text)
  IN IF Contains(clean_text, seller_marker)
     THEN SearchGroup(fallback_re, LastPart(clean_text, seller_marker, Len(clean_text)), 4, 4)
     ELSE None

ExtractSeller(first_page_text) ==
  LET seller == PickSeller(NameMatches(first_page_text))
  IN IF ~Truthy(seller) THEN SellerFallback(first_page_text) ELSE seller

\* extract_invoice_data (lines 74-175).  A pdf is [ok, pages]: ok is whether
\* pdfplumber opens and reads it without raising, pages the texts of its pages
\* (<<>> for a page with no text layer).

RECURSIVE FullText(_)
FullText(pages) ==
  IF pages = <<>> THEN <<>>
  ELSE (IF Head(pages) # <<>> THEN Head(pages) \o <<"\n">> ELSE <<>>) \o FullText(Tail(pages))

NoData == [date |-> None, seller |-> None, amount |-> None, full_text |-> None]

extract_invoice_data(pdf) ==
  IF ~pdf.ok \/ pdf.pages = <<>> THEN NoData
  ELSE LET first_page_text == pdf.pages[1]
           full_text == FullText(pdf.pages)
       IN IF first_page_text = <<>> THEN NoData
          ELSE [date |-> ExtractDate(first_page_text),
                seller |-> ExtractSeller(first_page_text),
                amount |-> ExtractAmount(full_text, first_page_text),
                full_text |-> full_text]

-----------------------------------------------------------------------------
\* extract_items_section (lines 177-215)

\* text.split('\n')
RECURSIVE SplitLines(_)
SplitLines(text) ==
  IF \A i \in 1..Len(text) : text[i] # "\n" THEN <<text>>
  ELSE LET i == CHOOSE k \in 1..Len(text) : text[k] = "\n" /\ \A j \in 1..(k - 1) : text[j] # "\n"
       IN <<SubSeq(text, 1, i - 1)>> \o SplitLines(SubSeq(text, i + 1, Len(text)))

\* "\n".join(lines)
RECURSIVE JoinLines(_)
JoinLines(lines) ==
  IF lines = <<>> THEN <<>>
  ELSE IF Len(lines) = 1 THEN lines[1]
  ELSE lines[1] \o <<"\n">> \o JoinLines(Tail(lines))

name_label == <<"ming", "cheng">>
amount_label == <<"jin", "e2">>
unit_price_label == <<"dan", "jia">>
quantity_label == <<"shu", "liang">>
buyer_marker == <<"gou", "mai", "fang">>
total_label == <<"he", "ji">>
grand_total_label == <<"jia", "shui", "he", "ji">>

IsTableHeader(line) ==
  Contains(line, name_label)
  /\ (Contains(line, amount_label) \/ Contains(line, unit_price_label)
      \/ Contains(line, quantity_label))

IsPlainHeader(line) ==
  Contains(line, name_label) /\ ~Contains(line, buyer_marker) /\ ~Contains(line, seller_marker)

IsFooter(line) == Contains(line, total_label) \/ Contains(line, grand_total_label)

\* the index a loop that breaks at its first hit ends with: the least of the
\* indices that hit, or -1 (lines are numbered from 1 here, from 0 in Python)
FirstIndex(hits) == IF hits = {} THEN -1 ELSE CHOOSE i \in hits : \A j \in hits : i <= j

StartIndex_FirstNameLine(lines) ==
  FirstIndex({i \in 1..Len(lines) : IsTableHeader(lines[i]) \/ IsPlainHeader(lines[i])})

StartIndex(lines) ==
  LET start_index == FirstIndex({i \in 1..Len(lines) : IsTableHeader(lines[i])})
  IN IF start_index = -1
     THEN FirstIndex({i \in 1..Len(lines) : IsPlainHeader(lines[i])})
     ELSE start_index

EndIndex(lines, start_index) ==
  IF start_index # -1
  THEN FirstIndex({i \in (start_index + 1)..Len(lines) : IsFooter(lines[i])})
  ELSE -1

extract_items_section(text) ==
  LET lines == SplitLines(text)
      start_index == StartIndex(lines)
      end_index == EndIndex(lines, start_index)
  IN IF start_index # -1 /\ end_index # -1
     THEN JoinLines(SubSeq(lines, start_index + 1, end_index - 1))
     ELSE IF start_index # -1
     THEN JoinLines(SubSeq(lines, start_index + 1, Len(lines)))
     ELSE text

-----------------------------------------------------------------------------
\* get_invoice_summary (lines 11-72)

EndsWith(s, suffix) == Len(s) >= Len(suffix) /\ SubSeq(s, Len(s) - Len(suffix) + 1, Len(s)) = suffix
StartsWith(s, prefix) == Len(s) >= Len(prefix) /\ SubSeq(s, 1, Len(prefix)) = prefix

\* s.count(c)
CountChar(s, c) == Cardinality({i \in 1..Len(s) : s[i] = c})

\* s.rstrip / s.lstrip / s.strip of the characters of cls
RECURSIVE RStrip(_, _)
RStrip(s, cls) == IF s # <<>> /\ s[Len(s)] \in cls THEN RStrip(SubSeq(s, 1, Len(s) - 1), cls) ELSE s
RECURSIVE LStrip(_, _)
LStrip(s, cls) == IF s # <<>> /\ Head(s) \in cls THEN LStrip(Tail(s), cls) ELSE s
Strip(s, cls) == LStrip(RStrip(s, cls), cls)

\* lines 18-21: the base URL the client is built with
NormalizeBaseUrl(base_url) ==
  IF base_url # <<>> /\ ~EndsWith(base_url, <<"/", "v", "1">>)
     /\ ~EndsWith(base_url, <<"/", "v", "1", "/">>)
  THEN IF CountChar(base_url, "/") <= 3
       THEN RStrip(base_url, {"/"}) \o <<"/", "v", "1">>
       ELSE base_url
  ELSE base_url

\* re.IGNORECASE on the letters of the alphabet
Lower(c) == CASE c = "A" -> "a" [] c = "B" -> "b" [] c = "C" -> "c"
              [] c = "O" -> "o" [] c = "S" -> "s" [] c = "U" -> "u" [] OTHER -> c
LowerSeq(s) == [i \in 1..Len(s) |-> Lower(s[i])]

answer_prefixes ==
  << <<"o", "u", "t", "p", "u", "t">>, <<"s", "u", "m", "m", "a", "r", "y">>,
     <<"a", "n", "s", "w", "e", "r">> >>

\* line 61: re.sub(r'^(Output|Summary|Answer)[:...\s]*', '', summary, flags=re.IGNORECASE)
StripAnswerPrefix(summary) ==
  LET hits == {k \in 1..Len(answer_prefixes) : StartsWith(LowerSeq(summary), answer_prefixes[k])}
  IN IF hits = {} THEN summary
     ELSE LET k == CHOOSE h \in hits : \A g \in hits : h <= g
          IN LStrip(SubSeq(summary, Len(answer_prefixes[k]) + 1, Len(summary)),
                    {":", "fwcolon"} \cup WS)

\* lines 58-63
TrimSummary(content) == Strip(StripAnswerPrefix(Strip(content, WS)), {"\"", "'", " "})

CleanSummary_Unsanitized(content) == TrimSummary(content)

\* lines 58-67
CleanSummary(content) == RemoveChars(SummaryForbidden, TrimSummary(content))

\* A response of the API: the call raises, the response has no choices, or it
\* has a message whose content is a text or None.
get_invoice_summary(response) ==
  IF response.kind = "raise" \/ response.kind = "nochoices" THEN None
  ELSE IF response.content = None THEN None
  ELSE CleanSummary(response.content)

-----------------------------------------------------------------------------
\* main: the filename (lines 249-281)

filename_date_re ==
  << Rep(Digits, 4), One({"nian"}), Rep(Digits, 2), One({"yue"}), Rep(Digits, 2), One({"ri"}) >>

\* lines 274-277
FormatDate(date) ==
  LET m == MatchFrom(filename_date_re, 1, date, 1)
  IN IF m = <<>> THEN date
     ELSE Group(date, m, 1, 1) \o <<".">> \o Group(date, m, 3, 3) \o <<".">> \o Group(date, m, 5, 5)

unknown == <<"U", "n", "k", "n", "o", "w", "n">>
pdf_ext == <<".", "p", "d", "f">>

Usable_NeedsSeller(data) == Truthy(data.date) /\ Truthy(data.amount) /\ Truthy(data.seller)

\* line 249
Usable(data) == Truthy(data.date) /\ Truthy(data.amount)

\* line 253: the API is called when a key was given and there is text
Consults(data, key) == Truthy(key) /\ Truthy(data.full_text)

\* lines 253-262: the summary, None when the API is not called
Summary(data, key, response) ==
  IF Consults(data, key) THEN get_invoice_summary(response) ELSE None

MiddlePart_SellerFirst(data, summary) ==
  LET middle_part == IF Truthy(data.seller) THEN data.seller ELSE summary
  IN IF ~Truthy(middle_part) THEN unknown ELSE middle_part

\* lines 251, 263-269
MiddlePart(data, summary) ==
  LET middle_part == IF Truthy(summary) THEN summary ELSE data.seller
  IN IF ~Truthy(middle_part) THEN unknown ELSE middle_part

\* line 279
RawFilename(data, middle_part) ==
  FormatDate(data.date) \o <<"-">> \o middle_part \o <<"-">> \o data.amount \o pdf_ext

\* line 281
NewFilename(data, middle_part) == RemoveChars(FilenameForbidden, RawFilename(data, middle_part))

-----------------------------------------------------------------------------
\* Texts.  Lines(vocabulary, n): the sequences of at most n lines of a vocabulary.

SeqsUpTo(S, n) == UNION {[1..k -> S] : k \in 0..n}

date_line == <<"kai", "piao", "ri", "qi", ":", "2", "0", "2", "3", "nian", "0", "1", "yue", "0", "1", "ri">>
seller_line == <<"ming", "cheng", ":", "A", "B", "C", "gong", "si">>
amount_line == <<"jia", "shui", "he", "ji", "fwlp", "xiao", "xie", "fwrp", "yen", "9", "9", ".", "0", "0">>

Pdf(pages) == [ok |-> TRUE, pages |-> pages]

GoodDoc == Pdf(<<JoinLines(<<date_line, seller_line, amount_line>>)>>)
GoodTwin == Pdf(<<JoinLines(<<date_line, seller_line, amount_line, <<"x">>>>)>>)
NoSellerDoc == Pdf(<<JoinLines(<<date_line, amount_line>>)>>)
NoDateDoc == Pdf(<<JoinLines(<<seller_line, amount_line>>)>>)
NoAmountDoc == Pdf(<<JoinLines(<<date_line, seller_line>>)>>)
TwoPageDoc == Pdf(<<JoinLines(<<date_line, seller_line>>), amount_line>>)
ScannedDoc == Pdf(<< <<>> >>)
CorruptDoc == [ok |-> FALSE, pages |-> <<>>]

Docs == {GoodDoc, GoodTwin, NoSellerDoc, NoDateDoc, NoAmountDoc, TwoPageDoc, ScannedDoc, CorruptDoc}

\* The responses of the API.
Raises == [kind |-> "raise", content |-> None]
NoChoices == [kind |-> "nochoices", content |-> None]
Content(c) == [kind |-> "ok", content |-> c]

Responses ==
  { Raises, NoChoices, Content(None), Content(<<>>), Content(<<"\"", " ", "\"">>),
    Content(<<"O", "u", "t", "p", "u", "t", ":", " ", "bi", "/", "ji", "\n">>),
    Content(<<"A", "B", "C", "gong", "si">>) }

-----------------------------------------------------------------------------
\* main (lines 217-295)

input_dir == "in"
Directories == {"in", "out"}

a_pdf == <<"a">> \o pdf_ext
b_pdf == <<"b">> \o pdf_ext
n_txt == <<"n", ".", "t", "x", "t">>
\* a name main itself gives to a copy of GoodDoc
g_pdf == <<"2", "0", "2", "3", ".", "0", "1", ".", "0", "1", "-", "A", "B", "C", "gong", "si",
           "-", "9", "9", ".", "0", "0">> \o pdf_ext

\* a directory is a function from the names in it to their bytes
EmptyDir == [n \in {} |-> CorruptDoc]
Put(dir, name, bytes) == [n \in (DOMAIN dir) \cup {name} |-> IF n = name THEN bytes ELSE dir[n]]

\* input_dir.glob('*.pdf')
Glob(dir) == {n \in DOMAIN dir : EndsWith(n, pdf_ext)}

MaxPdfs == 2

\* no such file
Absent == [ok |-> FALSE, pages |-> <<None>>]

DirOf(da, db, dg) ==
  [n \in {n_txt} \cup (IF da = Absent THEN {} ELSE {a_pdf}) \cup (IF db = Absent THEN {} ELSE {b_pdf})
         \cup (IF dg = Absent THEN {} ELSE {g_pdf})
     |-> IF n = a_pdf THEN da ELSE IF n = b_pdf THEN db ELSE IF n = g_pdf THEN dg ELSE CorruptDoc]

NoFile == [file |-> None, data |-> NoData]

InitMain ==
  /\ mode = "main" /\ inp = <<>> /\ out = <<>>
  /\ pc = "start"
  /\ output_dir \in Directories
  /\ api_key \in {None, <<"k">>}
  /\ \E in_exists \in BOOLEAN, out_exists \in BOOLEAN, old_copy \in BOOLEAN :
       \E da \in Docs \cup {Absent}, db \in {Absent, GoodDoc, GoodTwin, NoSellerDoc},
          dg \in {Absent, ScannedDoc} :
         LET d == DirOf(da, db, dg)
         IN /\ Cardinality(Glob(d)) <= MaxPdfs
            /\ (~in_exists => Glob(d) = {} /\ output_dir = "out" /\ ~old_copy)
            /\ (old_copy => out_exists /\ output_dir = "out")
            /\ (output_dir = "in" => out_exists = in_exists)
            /\ dirs = [x \in (IF in_exists THEN {"in"} ELSE {}) \cup (IF out_exists THEN {"out"} ELSE {})
                         |-> IF x = "in" THEN d
                             ELSE IF old_copy THEN Put(EmptyDir, g_pdf, ScannedDoc) ELSE EmptyDir]
            /\ originals = dirs
  /\ todo = {} /\ count = 0 /\ events = <<>> /\ stdout = <<>> /\ consulted = {}
  /\ current = NoFile

pure_unchanged == UNCHANGED <<mode, inp, out, output_dir, api_key, originals>>

\* lines 234-236: the input directory does not exist
InputMissing ==
  /\ mode = "main" /\ pc = "start"
  /\ input_dir \notin DOMAIN dirs
  /\ stdout' = Append(stdout, <<"input directory does not exist">>)
  /\ pc' = "returned"
  /\ UNCHANGED <<dirs, todo, count, events, consulted, current>>
  /\ pure_unchanged

\* lines 238-244, the output directory exists: the loop starts
OutputExists ==
  /\ mode = "main" /\ pc = "start"
  /\ input_dir \in DOMAIN dirs
  /\ output_dir \in DOMAIN dirs
  /\ todo' = Glob(dirs[input_dir])
  /\ pc' = "loop"
  /\ UNCHANGED <<dirs, count, events, stdout, consulted, current>>
  /\ pure_unchanged

\* lines 238-244, output_dir.mkdir(parents=True) succeeds: the loop starts
MkdirSucceeds ==
  /\ mode = "main" /\ pc = "start"
  /\ input_dir \in DOMAIN dirs
  /\ output_dir \notin DOMAIN dirs
  /\ dirs' = [x \in (DOMAIN dirs) \cup {output_dir} |-> IF x = output_dir THEN EmptyDir ELSE dirs[x]]
  /\ todo' = Glob(dirs[input_dir])
  /\ pc' = "loop"
  /\ UNCHANGED <<count, events, stdout, consulted, current>>
  /\ pure_unchanged

\* line 239, output_dir.mkdir(parents=True) raises (the path cannot be created):
\* no handler encloses the call, and the exception ends the run
MkdirRaises ==
  /\ mode = "main" /\ pc = "start"
  /\ input_dir \in DOMAIN dirs
  /\ output_dir \notin DOMAIN dirs
  /\ pc' = "raised"
  /\ UNCHANGED <<dirs, todo, count, events, stdout, consulted, current>>
  /\ pure_unchanged

\* lines 244-247: the loop takes the next file and extracts its fields; when
\* pdfplumber raises, extract_invoice_data prints the error (line 174)
NextFile(f) ==
  /\ mode = "main" /\ pc = "loop" /\ f \in todo
  /\ current' = [file |-> f, data |-> extract_invoice_data(dirs[input_dir][f])]
  /\ stdout' = IF dirs[input_dir][f].ok /\ dirs[input_dir][f].pages # <<>> THEN stdout
               ELSE Append(stdout, <<"error processing", f>>)
  /\ todo' = todo \ {f}
  /\ pc' = "file"
  /\ UNCHANGED <<dirs, count, events, consulted>>
  /\ pure_unchanged

Event(f, data, summary, outcome, dest) ==
  [file |-> f, data |-> data, summary |-> summary, outcome |-> outcome, dest |-> dest]

\* lines 249, 292-293: the date or the amount is absent
SkipFile ==
  /\ mode = "main" /\ pc = "file"
  /\ ~Usable(current.data)
  /\ stdout' = Append(stdout, <<"failed to extract all info", current.file, current.data.date,
                                current.data.seller, current.data.amount>>)
  /\ events' = Append(events, Event(current.file, current.data, None, "skipped", None))
  /\ pc' = "loop"
  /\ UNCHANGED <<dirs, todo, count, consulted, current>>
  /\ pure_unchanged

\* lines 249-291: the date and the amount are present.  response is what the
\* API answers when it is called; copies is whether shutil.copy2 succeeds on
\* two different files: it raises SameFileError when the destination is the
\* source, and otherwise replaces what the destination held.
CopyFile(response, copies) ==
  /\ mode = "main" /\ pc = "file"
  /\ Usable(current.data)
  /\ LET f == current.file
         summary == Summary(current.data, api_key, response)
         new_filename == NewFilename(current.data, MiddlePart(current.data, summary))
         same_file == output_dir = input_dir /\ new_filename = f
     IN /\ IF Consults(current.data, api_key) THEN consulted' = consulted \cup {f}
           ELSE response = Raises /\ consulted' = consulted
        /\ IF copies /\ ~same_file
           THEN /\ dirs' = [dirs EXCEPT ![output_dir] = Put(@, new_filename, dirs[input_dir][f])]
                /\ count' = count + 1
                /\ events' = Append(events, Event(f, current.data, summary, "copied", new_filename))
                /\ stdout' = stdout
           ELSE /\ stdout' = Append(stdout, <<"failed to copy", f>>)
                /\ events' = Append(events, Event(f, current.data, summary, "copy failed", new_filename))
                /\ UNCHANGED <<dirs, count>>
  /\ pc' = "loop"
  /\ UNCHANGED <<todo, current>>
  /\ pure_unchanged

\* line 295: the loop is over
Finish ==
  /\ mode = "main" /\ pc = "loop" /\ todo = {}
  /\ stdout' = Append(stdout, <<"done", count>>)
  /\ pc' = "done"
  /\ UNCHANGED <<dirs, todo, count, events, consulted, current>>
  /\ pure_unchanged

Next ==
  \/ InputMissing
  \/ OutputExists
  \/ MkdirSucceeds
  \/ MkdirRaises
  \/ \E f \in todo : NextFile(f)
  \/ SkipFile
  \/ \E response \in Responses, copies \in BOOLEAN : CopyFile(response, copies)
  \/ Finish

Init == InitMain

Spec == Init /\ [][Next]_vars

-----------------------------------------------------------------------------
\* The functions on their own: the argument is drawn in the initial state and
\* one step applies the function.

FunctionInit(m) ==
  /\ mode = m /\ pc = "ready" /\ out = None
  /\ dirs = <<>> /\ output_dir = "out" /\ api_key = None /\ todo = {} /\ count = 0
  /\ events = <<>> /\ stdout = <<>> /\ consulted = {} /\ current = NoFile /\ originals = <<>>

main_unchanged ==
  UNCHANGED <<mode, inp, dirs, output_dir, api_key, todo, count, events, stdout, consulted,
              current, originals>>

RECURSIVE Concat(_)
Concat(parts) == IF parts = <<>> THEN <<>> ELSE Head(parts) \o Concat(Tail(parts))

\* a pdf of at most two pages: the first k lines are the first page
PdfOfLines(lines, k) ==
  IF lines = <<>> THEN Pdf(<< <<>> >>)
  ELSE IF k = Len(lines) THEN Pdf(<<JoinLines(lines)>>)
  ELSE Pdf(<<JoinLines(SubSeq(lines, 1, k)), JoinLines(SubSeq(lines, k + 1, Len(lines)))>>)

\* extract_invoice_data on pages that speak of amounts
MaxAmountLines == 3

AmountLines ==
  { <<"jia", "shui", "he", "ji", "fwlp", "xiao", "xie", "fwrp", "yen", "1">>,
    <<"xiao", "xie", "yen", "2">>,
    <<"xiao", "xie", "3">>,
    <<"jia", "shui", "he", "ji">>,
    <<"xiao", " ", "xie", ":", "YEN", " ", "6">>,
    <<"4", ".", "5">>,
    <<" ", " ", " ", " ", " ", " ", "7">>,
    <<"x">> }

InitAmount ==
  /\ FunctionInit("amount")
  /\ \E ls \in SeqsUpTo(AmountLines, MaxAmountLines) :
       \E k \in 1..Len(ls) \cup {Len(ls)} : inp = PdfOfLines(ls, k)

\* extract_invoice_data on pages that speak of names
MaxSellerLines == 3

SellerLines ==
  { <<"ming", "cheng", ":", "gui", "ge", "A">>,
    <<"ming", "cheng", "fwcolon", "jin", "e2">>,
    <<"ming", "cheng", ":", "zhang", "gong", "si">>,
    <<"ming", "cheng", ":", " ", "san", "dian">>,
    <<"ming", "cheng", ":", "zhang", "san">>,
    <<"ming", " ", "cheng", " ", "san">>,
    <<"xiao1", "shou", "fang">>,
    <<"x">> }

InitSeller ==
  /\ FunctionInit("seller")
  /\ \E ls \in SeqsUpTo(SellerLines, MaxSellerLines) : inp = PdfOfLines(ls, Len(ls))

ApplyExtract ==
  /\ mode \in {"amount", "seller"} /\ pc = "ready"
  /\ out' = extract_invoice_data(inp)
  /\ pc' = "applied"
  /\ main_unchanged

SpecAmount == InitAmount /\ [][ApplyExtract]_vars
SpecSeller == InitSeller /\ [][ApplyExtract]_vars

\* extract_items_section
MaxItemLines == 4

ItemLines ==
  { <<"ming", "cheng", " ", "jin", "e2">>,
    <<"dan", "jia", "ming", "cheng">>,
    <<"ming", "cheng", "x", "shu", "liang">>,
    <<"ming", "cheng">>,
    <<"gou", "mai", "fang", "ming", "cheng">>,
    <<"xiao1", "shou", "fang", "ming", "cheng">>,
    <<"he", "ji", "1">>,
    <<"x">>,
    <<>> }

InitItems ==
  /\ FunctionInit("items")
  /\ \E ls \in SeqsUpTo(ItemLines, MaxItemLines) :
       /\ ls # <<>>
       /\ inp = [lines |-> ls, text |-> JoinLines(ls)]

ApplyItems ==
  /\ mode = "items" /\ pc = "ready"
  /\ out' = extract_items_section(inp.text)
  /\ pc' = "applied"
  /\ main_unchanged

SpecItems == InitItems /\ [][ApplyItems]_vars

\* get_invoice_summary: the base URL
MaxUrlParts == 4

UrlParts ==
  { <<"h", "t", "t", "p", "s", ":", "/", "/">>, <<"h">>, <<"/">>, <<"v", "1">>, <<"v", "2">>,
    <<"x">> }

InitUrl ==
  /\ FunctionInit("url")
  /\ \E parts \in SeqsUpTo(UrlParts, MaxUrlParts) : inp = Concat(parts)

ApplyUrl ==
  /\ mode = "url" /\ pc = "ready"
  /\ out' = NormalizeBaseUrl(inp)
  /\ pc' = "applied"
  /\ main_unchanged

SpecUrl == InitUrl /\ [][ApplyUrl]_vars

\* one turn of main's loop, for any content of the API's answer
MaxSummaryParts == 3

SummaryParts ==
  { <<"O", "u", "t", "p", "u", "t", ":">>, <<"/">>, <<":">>, <<"\n">>, <<"\r">>, <<" ">>,
    <<"\"">>, <<"<">>, <<"bi">> }

NameDocs == {GoodDoc, NoSellerDoc, NoAmountDoc, ScannedDoc}

InitName ==
  /\ FunctionInit("name")
  /\ \E pdf \in NameDocs, key \in {None, <<"k">>} :
       \E response \in {Raises, NoChoices, Content(None)}
                       \cup {Content(Concat(parts)) : parts \in SeqsUpTo(SummaryParts, MaxSummaryParts)} :
         /\ (key = None => response = Raises)
         /\ inp = [pdf |-> pdf, key |-> key, response |-> response]

\* lines 247-281 for one file
OneFile(pdf, key, response) ==
  LET data == extract_invoice_data(pdf)
      summary == Summary(data, key, response)
  IN IF Usable(data)
     THEN [copy |-> TRUE, data |-> data, summary |-> summary,
           new_filename |-> NewFilename(data, MiddlePart(data, summary))]
     ELSE [copy |-> FALSE, data |-> data, summary |-> None, new_filename |-> None]

ApplyName ==
  /\ mode = "name" /\ pc = "ready"
  /\ out' = OneFile(inp.pdf, inp.key, inp.response)
  /\ pc' = "applied"
  /\ main_unchanged

SpecName == InitName /\ [][ApplyName]_vars

-----------------------------------------------------------------------------
\* The properties.

Max(S) == CHOOSE x \in S : \A y \in S : y <= x
Min(S) == CHOOSE x \in S : \A y \in S : x <= y
Present(x) == x # None /\ x # <<>>
InitialNames(dir) == IF dir \in DOMAIN originals THEN DOMAIN originals[dir] ELSE {}
Printed(line) == \E j \in 1..Len(stdout) : stdout[j] = line

\* C1: a copy is written only for a file whose date and amount were both
\* extracted; a file without a date or without an amount is skipped, with the
\* diagnostic printed and nothing written; a file with both is never skipped,
\* whatever its seller and whatever the API answered.
C1_CopyOnlyWithDateAndAmount ==
  mode = "main" =>
    /\ \A i \in 1..Len(events) :
         LET e == events[i]
             has_both == Present(e.data.date) /\ Present(e.data.amount)
         IN /\ (e.outcome = "skipped") <=> ~has_both
            /\ e.outcome = "skipped" =>
                 Printed(<<"failed to extract all info", e.file, e.data.date, e.data.seller,
                           e.data.amount>>)
    /\ output_dir \in DOMAIN dirs =>
         \A n \in DOMAIN dirs[output_dir] :
           \/ n \in InitialNames(output_dir)
           \/ \E i \in 1..Len(events) : events[i].outcome = "copied" /\ events[i].dest = n

\* a file with no seller whose summary failed was copied, and another was skipped
C1_Witness ==
  /\ mode = "main"
  /\ \E i \in 1..Len(events) :
       /\ events[i].outcome = "copied" /\ events[i].data.seller = None
       /\ events[i].file \in consulted /\ events[i].summary = None
       /\ events[i].dest \in DOMAIN dirs[output_dir]
  /\ \E i \in 1..Len(events) : events[i].outcome = "skipped"

\* the tiers' texts of the pdf under check
FirstPage == inp.pages[1]
WholeText == FullText(inp.pages)

\* C2: the amount is the capture of tier 1 when tier 1 matches, else that of
\* tier 2 when tier 2 matches, else that of tier 3; it is absent only when
\* all three fail.
C2_FirstMatchingTierWins ==
  (mode = "amount" /\ pc = "applied" /\ FirstPage # <<>>) =>
    /\ out.amount = (IF Tier1(WholeText) # None THEN Tier1(WholeText)
                     ELSE IF Tier2(FirstPage) # None THEN Tier2(FirstPage)
                     ELSE Tier3(FirstPage))
    /\ out.amount = None =>
         Tier1(WholeText) = None /\ Tier2(FirstPage) = None /\ Tier3(FirstPage) = None

\* tier 1 matched at the label of the grand total, and tiers 2 and 3 would
\* have captured something else
C2_Witness ==
  /\ mode = "amount" /\ pc = "applied" /\ FirstPage # <<>>
  /\ Contains(WholeText, grand_total_label)
  /\ Tier1(WholeText) # None /\ Tier2(FirstPage) # None /\ Tier3(FirstPage) # None
  /\ Tier2(FirstPage) # Tier1(WholeText) /\ Tier3(FirstPage) # Tier1(WholeText)
  /\ out.amount = Tier1(WholeText)

\* C3: of the name matches in document order, those with a table-header
\* keyword are discarded; the seller is the last remaining match with a
\* company suffix if there is one, else the last remaining match; the section
\* fallback decides only when no match remains.
C3_LastCompanyCandidate ==
  (mode = "seller" /\ pc = "applied" /\ FirstPage # <<>>) =>
    LET matches == NameMatches(FirstPage)
        kept == {i \in 1..Len(matches) :
                   \A k \in ignored_keywords : ~Contains(matches[i], k)}
        companies == {i \in kept : \E k \in company_suffixes : Contains(matches[i], k)}
    IN out.seller = (IF companies # {} THEN matches[Max(companies)]
                     ELSE IF kept # {} THEN matches[Max(kept)]
                     ELSE SellerFallback(FirstPage))

\* a header match was discarded and the last of two different companies chosen
C3_Witness ==
  /\ mode = "seller" /\ pc = "applied" /\ FirstPage # <<>>
  /\ LET matches == NameMatches(FirstPage)
     IN /\ Len(matches) = 3
        /\ IsIgnored(matches[1]) /\ IsCompany(matches[2]) /\ IsCompany(matches[3])
        /\ matches[2] # matches[3]
        /\ out.seller = matches[3]

\* 'YYYY(nian)MM(yue)DD(ri)' as 'YYYY.MM.DD', any other text as it is
Dotted(date) ==
  IF /\ Len(date) = 11 /\ date[5] = "nian" /\ date[8] = "yue" /\ date[11] = "ri"
     /\ \A i \in {1, 2, 3, 4, 6, 7, 9, 10} : date[i] \in Digits
  THEN SubSeq(date, 1, 4) \o <<".">> \o SubSeq(date, 6, 7) \o <<".">> \o SubSeq(date, 9, 10)
  ELSE date

ExpectedMiddle(e) ==
  IF api_key # None /\ Present(e.summary) THEN e.summary
  ELSE IF Present(e.data.seller) THEN e.data.seller
  ELSE unknown

\* C4: the name of every copy is date-middle-amount.pdf with the date dotted,
\* the amount as extracted, and the middle the summary when a key was given
\* and the summary is not empty, else the seller, else Unknown; without a key
\* the API is never called.
C4_FilenameFormat ==
  mode = "main" =>
    /\ \A i \in 1..Len(events) :
         LET e == events[i]
         IN /\ e.outcome = "copied" =>
                 e.dest = Dotted(e.data.date) \o <<"-">> \o ExpectedMiddle(e) \o <<"-">>
                          \o e.data.amount \o pdf_ext
            /\ e.file \notin consulted => e.summary = None
    /\ api_key = None => consulted = {}

\* one copy is named after its summary, another after Unknown
C4_Witness ==
  /\ mode = "main"
  /\ \E i, j \in 1..Len(events) :
       /\ events[i].outcome = "copied" /\ Present(events[i].summary)
       /\ Present(events[i].data.seller) /\ events[i].summary # events[i].data.seller
       /\ events[j].outcome = "copied" /\ ~Present(events[j].summary)
       /\ events[j].data.seller = None

AllForbidden == {"<", ">", ":", "\"", "/", "\\", "|", "?", "*", "\n", "\r"}

RECURSIVE Kept(_)
Kept(s) ==
  IF s = <<>> THEN <<>>
  ELSE IF Head(s) \in AllForbidden THEN Kept(Tail(s))
  ELSE <<Head(s)>> \o Kept(Tail(s))

\* C5: the name of a copy holds none of < > : " / \ | ? * nor a newline or
\* carriage return; when the summary is the middle, the middle is the answer
\* (trimmed) with exactly these characters left out and the rest joined, and
\* when the seller is the middle it is the seller as extracted.
C5_NoForbiddenCharacter ==
  (mode = "name" /\ pc = "applied" /\ out.copy) =>
    /\ \A i \in 1..Len(out.new_filename) : out.new_filename[i] \notin AllForbidden
    /\ LET answered == inp.key # None /\ inp.response.kind = "ok"
                       /\ inp.response.content # None
           spoken == IF answered THEN Kept(TrimSummary(inp.response.content)) ELSE <<>>
           middle == IF spoken # <<>> THEN spoken
                     ELSE IF Present(out.data.seller) THEN out.data.seller
                     ELSE unknown
       IN out.new_filename = Dotted(out.data.date) \o <<"-">> \o middle \o <<"-">>
                             \o out.data.amount \o pdf_ext

\* the answer held a forbidden character between two others, which are joined
C5_Witness ==
  /\ mode = "name" /\ pc = "applied" /\ out.copy
  /\ inp.key # None /\ inp.response.kind = "ok" /\ inp.response.content # None
  /\ LET t == TrimSummary(inp.response.content)
     IN /\ Len(t) = 3 /\ t[1] = "bi" /\ t[2] \in {"/", "\n"} /\ t[3] = "bi"
        /\ out.summary = <<"bi", "bi">>

\* the run ended: it returned, or an exception ended it
Ended == pc \in {"returned", "raised", "done"}

EventsOf(f) == {i \in 1..Len(events) : events[i].file = f}

\* C6: a run over an existing input directory ends with every pdf of the
\* directory handled exactly once and the count printed; only a run whose
\* input directory is missing ends before any file is handled.
C6_OnlyMissingInputHalts ==
  (mode = "main" /\ Ended) =>
    IF "in" \in DOMAIN originals
    THEN /\ pc = "done"
         /\ \A f \in Glob(originals["in"]) : Cardinality(EventsOf(f)) = 1
         /\ Printed(<<"done", count>>)
    ELSE pc = "returned" /\ events = <<>>

\* C7: every file the input directory held when the run started is still
\* there, under its name and with its bytes.
C7_OriginalsUntouched ==
  (mode = "main" /\ "in" \in DOMAIN originals) =>
    \A n \in DOMAIN originals["in"] :
      n \in DOMAIN dirs["in"] /\ dirs["in"][n] = originals["in"][n]

\* C8: no copy replaces an earlier copy of another file, nor a file the output
\* directory already held: when the run is over the output directory holds
\* one new file per copied pdf.
C8_OneFilePerCopy ==
  mode = "main" =>
    /\ \A i, j \in 1..Len(events) :
         (i # j /\ events[i].outcome = "copied" /\ events[j].outcome = "copied")
           => events[i].dest # events[j].dest
    /\ \A i \in 1..Len(events) :
         events[i].outcome = "copied" => events[i].dest \notin InitialNames(output_dir)
    /\ pc = "done" =>
         Cardinality(DOMAIN dirs[output_dir] \ InitialNames(output_dir)) = count

\* the segments of a URL between its '/'s
RECURSIVE Segments(_)
Segments(url) ==
  IF \A i \in 1..Len(url) : url[i] # "/" THEN <<url>>
  ELSE LET i == Min({k \in 1..Len(url) : url[k] = "/"})
       IN <<SubSeq(url, 1, i - 1)>> \o Segments(SubSeq(url, i + 1, Len(url)))

IsVersion(segment) ==
  Len(segment) >= 2 /\ segment[1] = "v" /\ \A i \in 2..Len(segment) : segment[i] \in Digits

\* a segment after a '/' is a version
HasVersionSegment(url) ==
  LET segments == Segments(url) IN \E i \in 2..Len(segments) : IsVersion(segments[i])

\* C9: for a base URL that is given (not empty), /v1 is appended, after the
\* trailing '/'s are removed, exactly when the URL has no version segment and
\* at most 3 '/'; any other URL is unchanged.
C9_VersionAppendedWhenMissing ==
  (mode = "url" /\ pc = "applied" /\ inp # <<>>) =>
    out = (IF ~HasVersionSegment(inp) /\ CountChar(inp, "/") <= 3
           THEN RStrip(inp, {"/"}) \o <<"/", "v", "1">>
           ELSE inp)

\* the header and the footer of the lines under check
HeaderLines ==
  {i \in 1..Len(inp.lines) :
     /\ Contains(inp.lines[i], name_label)
     /\ \/ Contains(inp.lines[i], amount_label)
        \/ Contains(inp.lines[i], unit_price_label)
        \/ Contains(inp.lines[i], quantity_label)}
NameLines ==
  {i \in 1..Len(inp.lines) :
     /\ Contains(inp.lines[i], name_label)
     /\ ~Contains(inp.lines[i], buyer_marker)
     /\ ~Contains(inp.lines[i], seller_marker)}
HeaderAt == IF HeaderLines # {} THEN Min(HeaderLines) ELSE IF NameLines # {} THEN Min(NameLines) ELSE 0
FooterLines == {i \in (HeaderAt + 1)..Len(inp.lines) : Contains(inp.lines[i], total_label)}

\* C10: the header is the first line with the name label and a column label,
\* else the first line with the name label and no party marker; the footer is
\* the first line after it with the total label; the result is the lines
\* strictly between them, or all lines after the header when there is no
\* footer, or the text itself when there is no header.
C10_ItemsBetweenHeaderAndFooter ==
  (mode = "items" /\ pc = "applied") =>
    out = (IF HeaderAt = 0 THEN inp.text
           ELSE IF FooterLines # {}
           THEN JoinLines(SubSeq(inp.lines, HeaderAt + 1, Min(FooterLines) - 1))
           ELSE JoinLines(SubSeq(inp.lines, HeaderAt + 1, Len(inp.lines))))

\* a plain name line comes before the table header, and a footer follows
C10_Witness ==
  /\ mode = "items" /\ pc = "applied"
  /\ HeaderLines # {} /\ NameLines # {} /\ Min(NameLines) < Min(HeaderLines)
  /\ FooterLines # {} /\ Min(FooterLines) > HeaderAt + 1
  /\ out = JoinLines(SubSeq(inp.lines, Min(HeaderLines) + 1, Min(FooterLines) - 1))

====
